---- MODULE Spec2Model ----
(***************************************************************************)
(* The paginated streaming fetch of go-photoslibrary: albums.List,        *)
(* mediaitems.List and mediaitems.Search.  The three functions are the    *)
(* same loop over a different single-page fetcher (list / search); the    *)
(* model follows albums.List and names the others where they differ.      *)
(*                                                                         *)
(* One pagination call is modelled: the goroutine started by List (the    *)
(* driver), the transport it calls, the context it observes and the       *)
(* consumer at the other end of the two unbuffered channels.               *)
(*                                                                         *)
(* Items are opaque to the driver (it only copies them from the decoded   *)
(* page to the channel), so the i-th item of the k-th fetched page is     *)
(* represented by the pair <<k, i>>: every item is distinguishable, and a *)
(* duplicate, an omission or a reordering shows in the received sequence.  *)
(***************************************************************************)
EXTENDS Naturals, Sequences, FiniteSets

\* Bounds of the model.
MaxFetches == 3     \* transport calls one pagination call may issue
MaxPageLen == 2     \* items in one page
MaxTokenLen == 2    \* characters of a page token given to the request builder
MaxCallbacks == 2   \* redirect callbacks that reach the listener of one login

\* Page tokens; "" is the end-of-results sentinel (and "first page" in a request).
Tokens == {"", "a", "b"}

VARIABLES
    pc,           \* where the goroutine of List is: poll, fetch, senderr, emit, done
    listRequest,  \* listAlbumsRequest: the request the caller passed to List
    req,          \* the goroutine's copy of the request
    resp,         \* albumsResp: the page being emitted
    idx,          \* index in resp.items of the item the range loop is at
    cancelled,    \* ctx.Done() is closed
    closeCount,   \* number of times close(albumCh) has run
    outcome,      \* how the goroutine returned: none, Done, Failed, Cancelled
    received,     \* items the consumer has received from albumCh, in order
    errs,         \* errors the consumer has received from errCh, in order
    consumerGone, \* the consumer has stopped receiving from both channels
    issued,       \* history: the request of every call of list, in order
    fetched,      \* history: the result of every returned call of list, in order
    atCancel      \* history: a snapshot taken when ctx was cancelled

\* The request builder of list and search, taken on its own: one request is
\* built and what was built is parsed back.
VARIABLES
    bpc,          \* new, built, parsed
    bKind,        \* which builder: list (query string) or search (JSON body)
    bReq,         \* the request given to the builder
    bOut,         \* what was built: url.URL.RawQuery, or the JSON body
    bBack         \* the request read back from bOut

builderVars == <<bpc, bKind, bReq, bOut, bBack>>

\* One call of list (or search), taken on its own: the transport call, the
\* decoding of the body and the closing of the body.
VARIABLES
    fpc,          \* where list is: idle, do, decode, close, returned
    fReq,         \* the request list was called with
    fResp,        \* resp: the *http.Response client.Do returned
    fBody,        \* resp.Body: none, open, closed
    fCalls,       \* number of times client.Do was called
    fRet          \* what list returned: the response value and the error

fetcherVars == <<fpc, fReq, fResp, fBody, fCalls, fRet>>

\* One call of NewClient of package oauth2, its redirect listener and the
\* redirect callbacks the listener handles.
VARIABLES
    opc,          \* where NewClient is: idle, new, serve, present, wait,
                  \* shutdown, exchange, returned, crashed
    oState,       \* state: the nonce NewClient generated
    oServer,      \* the redirect server: none, running, closed, failed
    oShown,       \* the authorization URL was handed to authCodeURLHandlerFn
    oCallbacks,   \* the handler runs, in order of arrival: position, state
                  \* and code of the query, status answered
    oGot,         \* what NewClient received from codeCh, in order
    oCancelled,   \* the ctx passed to NewClient is done
    oShut,        \* result of server.Shutdown: none, ok, err
    oExch,        \* result of config.Exchange: none, ok, err
    oSteps,       \* history: the steps NewClient has taken, in order
    oRet          \* what NewClient returned

oauthVars == <<opc, oState, oServer, oShown, oCallbacks, oGot, oCancelled,
               oShut, oExch, oSteps, oRet>>

\* Two calls of List running at the same time on one client.
VARIABLES
    calls,        \* for each call, the state of its goroutine and what its
                  \* consumer received from its albumCh and errCh
    transport     \* what the server behind client answers to each page token

concVars == <<calls, transport>>

\* What no step of the goroutine, of the owner of ctx or of the consumer
\* changes: the caller's request, passed to List by value, and what does not
\* belong to the pagination call.
frame == <<listRequest, builderVars, fetcherVars, oauthVars, concVars>>

\* The pagination call's own state.
driverVars == <<pc, req, resp, idx, cancelled, closeCount, outcome, received,
                errs, consumerGone, issued, fetched, atCancel, listRequest>>

vars == <<pc, req, resp, idx, cancelled, closeCount, outcome, received, errs,
          consumerGone, issued, fetched, atCancel, frame>>

\* Program constants of package api.
DefaultPageSize == 20
MaxPageSize == 50

\* ListAlbumsRequest values with the page size and the flag drawn from the
\* given sets (ListMediaItemsRequest has the same fields).
ListAlbumsRequest(sizes, flags) ==
    [PageSize : sizes, PageToken : Tokens, ExcludeNonAppCreatedData : flags]

\* ListAlbumsResponse as the driver reads it: the albums and NextPageToken.
\* ok = FALSE stands for list returning a non-nil error.
NoPage == [ok |-> FALSE, items |-> <<>>, next |-> ""]

PageItems(k, n) == [i \in 1..n |-> <<k, i>>]

\* What the k-th call of list may return: an error (transport, decode or body
\* close), or any page of at most MaxPageLen items with any next page token.
\* The transport is not under the driver's control, so the result is chosen
\* when the call returns, whether or not ctx has been cancelled meanwhile
\* (a transport honouring ctx answers a cancelled call with an error, a
\* transport ignoring it, such as the tests' mockRoundTripper, with a page).
ListResults(k) ==
    {NoPage} \cup
    {[ok |-> TRUE, items |-> PageItems(k, n), next |-> t] :
        n \in 0..MaxPageLen, t \in Tokens}

NoSnapshot == [pc |-> "none", recv |-> 0, issued |-> 0, fetched |-> 0,
               errs |-> 0, idx |-> 0, gone |-> FALSE]

\* No request is being built.
BuilderIdle ==
    /\ bpc = "idle"
    /\ bKind = "none"
    /\ bReq = <<>>
    /\ bOut = <<>>
    /\ bBack = <<>>

\* var listAlbumsResponse ListAlbumsResponse: the zero value list returns
\* with every error.
ZeroResponse == [items |-> 0, next |-> ""]

\* No *http.Response yet.
NoResponse == [status |-> 0, valid |-> FALSE, page |-> ZeroResponse]

\* list has not been called.
FetcherIdle ==
    /\ fpc = "idle"
    /\ fReq = <<>>
    /\ fResp = NoResponse
    /\ fBody = "none"
    /\ fCalls = 0
    /\ fRet = <<>>

\* No call of List is running next to the one above.
ConcIdle ==
    /\ calls = <<>>
    /\ transport = <<>>

\* NewClient has returned nothing yet.
NoClient == [client |-> FALSE, err |-> "none", code |-> ""]

\* NewClient has not been called.
OAuthIdle ==
    /\ opc = "idle"
    /\ oState = ""
    /\ oServer = "none"
    /\ oShown = FALSE
    /\ oCallbacks = <<>>
    /\ oGot = <<>>
    /\ oCancelled = FALSE
    /\ oShut = "none"
    /\ oExch = "none"
    /\ oSteps = <<>>
    /\ oRet = NoClient

\* go func(req ListAlbumsRequest) {...}(listAlbumsRequest): the goroutine
\* starts at the top of the loop on its own copy of the caller's request.
Start ==
    /\ pc = "poll"
    /\ req = listRequest
    /\ resp = NoPage
    /\ idx = 0
    /\ cancelled = FALSE
    /\ closeCount = 0
    /\ outcome = "none"
    /\ received = <<>>
    /\ errs = <<>>
    /\ consumerGone = FALSE
    /\ issued = <<>>
    /\ fetched = <<>>
    /\ atCancel = NoSnapshot

\* The caller's request of the tests: page size and flag at their zero
\* values, any page token (empty for the first page, or one to resume from).
Init ==
    /\ listRequest \in ListAlbumsRequest({0}, {FALSE})
    /\ Start
    /\ BuilderIdle
    /\ FetcherIdle
    /\ OAuthIdle
    /\ ConcIdle

\* Any caller's request: page size unset or set, flag either way.
InitAnyRequest ==
    /\ listRequest \in ListAlbumsRequest({0, DefaultPageSize}, BOOLEAN)
    /\ Start
    /\ BuilderIdle
    /\ FetcherIdle
    /\ OAuthIdle
    /\ ConcIdle

\* Mutant of Return: close(albumCh) is called on the paths that end the loop
\* normally or with an error instead of being deferred, so a return from a
\* ctx.Done() case leaves the channel open.
ReturnNoDefer(how) ==
    /\ pc' = "done"
    /\ outcome' = how
    /\ closeCount' = IF how = "Cancelled" THEN closeCount ELSE closeCount + 1

\* return from the goroutine: the deferred close(albumCh) runs.
Return(how) ==
    /\ pc' = "done"
    /\ outcome' = how
    /\ closeCount' = closeCount + 1

\* Mutant of Advance: the range loop stops one item short (i < len), so the
\* last item of every page is never offered.
AdvanceOffByOne(page, i) ==
    IF i < Len(page.items)
    THEN /\ pc' = "emit"
         /\ idx' = i
         /\ UNCHANGED <<req, outcome, closeCount>>
    ELSE IF page.next = ""
    THEN /\ Return("Done")
         /\ idx' = i
         /\ UNCHANGED req
    ELSE /\ pc' = "poll"
         /\ idx' = i
         /\ req' = [req EXCEPT !.PageToken = page.next]
         /\ UNCHANGED <<outcome, closeCount>>

\* Mutant of Advance: a page without items is skipped with "continue"
\* before its NextPageToken is looked at.
AdvanceSkipsEmptyPage(page, i) ==
    IF i <= Len(page.items)
    THEN /\ pc' = "emit"
         /\ idx' = i
         /\ UNCHANGED <<req, outcome, closeCount>>
    ELSE IF page.next = "" /\ page.items # <<>>
    THEN /\ Return("Done")
         /\ idx' = i
         /\ UNCHANGED req
    ELSE /\ pc' = "poll"
         /\ idx' = i
         /\ req' = [req EXCEPT !.PageToken = page.next]
         /\ UNCHANGED <<outcome, closeCount>>

\* Mutant of Advance: req.PageToken = albumsResp.NextPageToken is missing.
AdvanceKeepsToken(page, i) ==
    IF i <= Len(page.items)
    THEN /\ pc' = "emit"
         /\ idx' = i
         /\ UNCHANGED <<req, outcome, closeCount>>
    ELSE IF page.next = ""
    THEN /\ Return("Done")
         /\ idx' = i
         /\ UNCHANGED req
    ELSE /\ pc' = "poll"
         /\ idx' = i
         /\ UNCHANGED <<req, outcome, closeCount>>

\* Mutant of Advance: a guard against a repeated token, returning when the
\* page's NextPageToken is the token the page was requested with.
AdvanceStopsOnRepeat(page, i) ==
    IF i <= Len(page.items)
    THEN /\ pc' = "emit"
         /\ idx' = i
         /\ UNCHANGED <<req, outcome, closeCount>>
    ELSE IF page.next = "" \/ page.next = req.PageToken
    THEN /\ Return("Done")
         /\ idx' = i
         /\ UNCHANGED req
    ELSE /\ pc' = "poll"
         /\ idx' = i
         /\ req' = [req EXCEPT !.PageToken = page.next]
         /\ UNCHANGED <<outcome, closeCount>>

\* Mutant of Advance: the next request is built afresh from the token
\* (req = ListAlbumsRequest{PageToken: albumsResp.NextPageToken}).
AdvanceFreshRequest(page, i) ==
    IF i <= Len(page.items)
    THEN /\ pc' = "emit"
         /\ idx' = i
         /\ UNCHANGED <<req, outcome, closeCount>>
    ELSE IF page.next = ""
    THEN /\ Return("Done")
         /\ idx' = i
         /\ UNCHANGED req
    ELSE /\ pc' = "poll"
         /\ idx' = i
         /\ req' = [PageSize |-> 0, PageToken |-> page.next,
                    ExcludeNonAppCreatedData |-> FALSE]
         /\ UNCHANGED <<outcome, closeCount>>

\* The range loop over page.items standing at index i, and what follows it:
\* the next item is offered on albumCh; after the last one, an empty
\* NextPageToken returns, any other is copied into req.PageToken for the
\* next iteration of the for loop.
Advance(page, i) ==
    IF i <= Len(page.items)
    THEN /\ pc' = "emit"
         /\ idx' = i
         /\ UNCHANGED <<req, outcome, closeCount>>
    ELSE IF page.next = ""
    THEN /\ Return("Done")
         /\ idx' = i
         /\ UNCHANGED req
    ELSE /\ pc' = "poll"
         /\ idx' = i
         /\ req' = [req EXCEPT !.PageToken = page.next]
         /\ UNCHANGED <<outcome, closeCount>>

\* select { case <-ctx.Done(): return; default: } with ctx done.
PollCancelled ==
    /\ pc = "poll"
    /\ cancelled
    /\ Return("Cancelled")
    /\ UNCHANGED <<req, resp, idx, cancelled, received, errs, consumerGone,
                   issued, fetched, atCancel>>
    /\ UNCHANGED frame

\* Mutant of PollContinue: the loop calls list without polling ctx.Done().
PollContinueNoPoll ==
    /\ pc = "poll"
    /\ Len(issued) < MaxFetches
    /\ pc' = "fetch"
    /\ issued' = Append(issued, req)
    /\ UNCHANGED <<req, resp, idx, cancelled, closeCount, outcome, received,
                   errs, consumerGone, fetched, atCancel>>
    /\ UNCHANGED frame

\* The default branch of the poll: list(ctx, client, req) is called.
PollContinue ==
    /\ pc = "poll"
    /\ ~cancelled
    /\ Len(issued) < MaxFetches
    /\ pc' = "fetch"
    /\ issued' = Append(issued, req)
    /\ UNCHANGED <<req, resp, idx, cancelled, closeCount, outcome, received,
                   errs, consumerGone, fetched, atCancel>>
    /\ UNCHANGED frame

\* list returns a page: the range loop starts.
FetchOK ==
    /\ pc = "fetch"
    /\ \E r \in ListResults(Len(fetched) + 1) :
        /\ r.ok
        /\ resp' = r
        /\ fetched' = Append(fetched, r)
        /\ Advance(r, 1)
    /\ UNCHANGED <<cancelled, received, errs, consumerGone, issued, atCancel>>
    /\ UNCHANGED frame

\* Mutant of FetchErr: the error is handed to a goroutine of its own
\* (go func() { errCh <- err }()) and albumCh is closed at once.
FetchErrCloseFirst ==
    /\ pc = "fetch"
    /\ pc' = "senderr"
    /\ closeCount' = closeCount + 1
    /\ fetched' = Append(fetched, NoPage)
    /\ UNCHANGED <<req, resp, idx, cancelled, outcome, received,
                   errs, consumerGone, issued, atCancel>>
    /\ UNCHANGED frame

\* list returns an error: the goroutine blocks in errCh <- err.
FetchErr ==
    /\ pc = "fetch"
    /\ pc' = "senderr"
    /\ fetched' = Append(fetched, NoPage)
    /\ UNCHANGED <<req, resp, idx, cancelled, closeCount, outcome, received,
                   errs, consumerGone, issued, atCancel>>
    /\ UNCHANGED frame

\* Mutant of RecvErr: "continue" instead of "return" after errCh <- err.
RecvErrContinue ==
    /\ pc = "senderr"
    /\ ~consumerGone
    /\ errs' = Append(errs, "err")
    /\ pc' = "poll"
    /\ UNCHANGED <<req, resp, idx, cancelled, closeCount, outcome, received,
                   consumerGone, issued, fetched, atCancel>>
    /\ UNCHANGED frame

\* Mutant of RecvErr: errCh is closed when the goroutine returns (defer
\* close(errCh)), so a receive from it after the return gives the zero value.
RecvErrOrClosed ==
    /\ ~consumerGone
    /\ \/ /\ pc = "senderr"
          /\ errs' = Append(errs, "err")
          /\ Return("Failed")
       \/ /\ pc = "done"
          /\ errs = <<>>
          /\ errs' = Append(errs, "nil")
          /\ UNCHANGED <<pc, outcome, closeCount>>
    /\ UNCHANGED <<req, resp, idx, cancelled, received, consumerGone, issued,
                   fetched, atCancel>>
    /\ UNCHANGED frame

\* The consumer receives from errCh: the send completes and the goroutine
\* returns.
RecvErr ==
    /\ pc = "senderr"
    /\ ~consumerGone
    /\ errs' = Append(errs, "err")
    /\ Return("Failed")
    /\ UNCHANGED <<req, resp, idx, cancelled, received, consumerGone, issued,
                   fetched, atCancel>>
    /\ UNCHANGED frame

\* Mutant of EmitItem: every send of the range loop sends the page's first
\* item (the loop variable is not the one sent).
EmitItemFirstOnly ==
    /\ pc = "emit"
    /\ ~consumerGone
    /\ received' = Append(received, resp.items[1])
    /\ Advance(resp, idx + 1)
    /\ UNCHANGED <<resp, cancelled, errs, consumerGone, issued, fetched,
                   atCancel>>
    /\ UNCHANGED frame

\* Mutant of EmitItem: the range loop walks the page from its last item to
\* its first.
EmitItemBackwards ==
    /\ pc = "emit"
    /\ ~consumerGone
    /\ received' = Append(received, resp.items[Len(resp.items) - idx + 1])
    /\ Advance(resp, idx + 1)
    /\ UNCHANGED <<resp, cancelled, errs, consumerGone, issued, fetched,
                   atCancel>>
    /\ UNCHANGED frame

\* case albumCh <- album: the consumer receives the item.  The case is ready
\* whenever the consumer is receiving.  A goroutine that enters a select
\* with several ready cases takes any one of them (Go chooses uniformly at
\* random), so a closed ctx.Done() does not disable this case: pc = "emit"
\* covers the goroutine about to enter the select as well as parked in it.
EmitItem ==
    /\ pc = "emit"
    /\ ~consumerGone
    /\ received' = Append(received, resp.items[idx])
    /\ Advance(resp, idx + 1)
    /\ UNCHANGED <<resp, cancelled, errs, consumerGone, issued, fetched,
                   atCancel>>
    /\ UNCHANGED frame

\* Mutant of AbortEmit: a plain albumCh <- album, with no ctx.Done() case.
AbortEmitNever ==
    /\ FALSE
    /\ UNCHANGED vars

\* Mutant of AbortEmit: the send of the error is in a select with
\* ctx.Done() as well (select { case errCh <- err: case <-ctx.Done(): }).
AbortEmitOrSendErr ==
    /\ pc \in {"emit", "senderr"}
    /\ cancelled
    /\ Return("Cancelled")
    /\ UNCHANGED <<req, resp, idx, cancelled, received, errs, consumerGone,
                   issued, fetched, atCancel>>
    /\ UNCHANGED frame

\* case <-ctx.Done(): return, in the select of the range loop.
AbortEmit ==
    /\ pc = "emit"
    /\ cancelled
    /\ Return("Cancelled")
    /\ UNCHANGED <<req, resp, idx, cancelled, received, errs, consumerGone,
                   issued, fetched, atCancel>>
    /\ UNCHANGED frame

\* The owner of ctx cancels it (once; a cancelled context stays cancelled).
Cancel ==
    /\ ~cancelled
    /\ cancelled' = TRUE
    /\ atCancel' = [pc |-> pc, recv |-> Len(received), issued |-> Len(issued),
                    fetched |-> Len(fetched), errs |-> Len(errs), idx |-> idx,
                    gone |-> consumerGone]
    /\ UNCHANGED <<pc, req, resp, idx, closeCount, outcome, received, errs,
                   consumerGone, issued, fetched>>
    /\ UNCHANGED frame

\* The consumer stops receiving from albumCh and errCh for good.
ConsumerLeave ==
    /\ ~consumerGone
    /\ consumerGone' = TRUE
    /\ UNCHANGED <<pc, req, resp, idx, cancelled, closeCount, outcome,
                   received, errs, issued, fetched, atCancel>>
    /\ UNCHANGED frame

Next ==
    \/ PollCancelled
    \/ PollContinue
    \/ FetchOK
    \/ FetchErr
    \/ RecvErr
    \/ EmitItem
    \/ AbortEmit
    \/ Cancel
    \/ ConsumerLeave

Spec == Init /\ [][Next]_vars

\* The same pagination call started with any caller's request.
AnyRequestSpec == InitAnyRequest /\ [][Next]_vars

\* The goroutine is scheduled: a step of its own that stays possible is taken.
\* Nothing is assumed of the transport, of the owner of ctx or of the consumer.
FairSpec ==
    /\ Spec
    /\ WF_vars(PollCancelled)
    /\ WF_vars(PollContinue)
    /\ WF_vars(AbortEmit)

\* The goroutine is scheduled, every call of list returns, and a consumer
\* that has not left receives the item or the error offered to it.
LiveSpec ==
    /\ FairSpec
    /\ WF_vars(FetchOK \/ FetchErr)
    /\ WF_vars(EmitItem)
    /\ WF_vars(RecvErr)

----------------------------------------------------------------------------
\* The request builder.
\*
\* A string is a sequence of characters.  The query keys and the words true
\* and false hold no character that is escaped or split at, and are kept as
\* one element each.

\* Characters a page token is made of here: a letter and the characters the
\* query syntax gives a meaning to.
TokenChars == {"a", "&", "=", "%", "+", " "}

RECURSIVE StringsUpTo(_)
StringsUpTo(n) ==
    IF n = 0
    THEN {<<>>}
    ELSE LET shorter == StringsUpTo(n - 1)
         IN  shorter \cup {Append(t, c) : t \in shorter, c \in TokenChars}

BuilderTokens == StringsUpTo(MaxTokenLen)

Digits == <<"0", "1", "2", "3", "4", "5", "6", "7", "8", "9">>

\* strconv.Itoa of a number that is not negative.
RECURSIVE Itoa(_)
Itoa(n) ==
    IF n < 10
    THEN <<Digits[n + 1]>>
    ELSE Itoa(n \div 10) \o <<Digits[(n % 10) + 1]>>

IsDigit(c) == \E d \in 1..10 : Digits[d] = c

DigitValue(c) == (CHOOSE d \in 1..10 : Digits[d] = c) - 1

RECURSIVE AtoiValue(_)
AtoiValue(str) ==
    IF str = <<>>
    THEN 0
    ELSE AtoiValue(SubSeq(str, 1, Len(str) - 1)) * 10 + DigitValue(str[Len(str)])

\* strconv.Atoi on unsigned decimal strings.
Atoi(str) ==
    IF str # <<>> /\ \A i \in 1..Len(str) : IsDigit(str[i])
    THEN [ok |-> TRUE, n |-> AtoiValue(str)]
    ELSE [ok |-> FALSE, n |-> 0]

\* strconv.FormatBool and strconv.ParseBool.
FormatBool(b) == IF b THEN <<"true">> ELSE <<"false">>

ParseBool(str) ==
    IF str \in {<<"1">>, <<"t">>, <<"T">>, <<"TRUE">>, <<"true">>, <<"True">>}
    THEN [ok |-> TRUE, b |-> TRUE]
    ELSE IF str \in {<<"0">>, <<"f">>, <<"F">>, <<"FALSE">>, <<"false">>, <<"False">>}
    THEN [ok |-> TRUE, b |-> FALSE]
    ELSE [ok |-> FALSE, b |-> FALSE]

\* url.QueryEscape, as url.Values.Encode applies it to a value.
EscapeChar(c) ==
    CASE c = " " -> <<"+">>
      [] c = "&" -> <<"%", "2", "6">>
      [] c = "=" -> <<"%", "3", "D">>
      [] c = "%" -> <<"%", "2", "5">>
      [] c = "+" -> <<"%", "2", "B">>
      [] OTHER   -> <<c>>

RECURSIVE QueryEscape(_)
QueryEscape(str) ==
    IF str = <<>> THEN <<>> ELSE EscapeChar(Head(str)) \o QueryEscape(Tail(str))

HexPairs == {<<"2", "6">>, <<"3", "D">>, <<"2", "5">>, <<"2", "B">>}

Unhex(pair) ==
    CASE pair = <<"2", "6">> -> "&"
      [] pair = <<"3", "D">> -> "="
      [] pair = <<"2", "5">> -> "%"
      [] pair = <<"2", "B">> -> "+"

\* url.QueryUnescape: %XY is a character, + is a space.
RECURSIVE QueryUnescape(_)
QueryUnescape(str) ==
    IF str = <<>>
    THEN [ok |-> TRUE, str |-> <<>>]
    ELSE IF Head(str) = "%"
    THEN IF Len(str) >= 3 /\ SubSeq(str, 2, 3) \in HexPairs
         THEN LET rest == QueryUnescape(SubSeq(str, 4, Len(str)))
              IN  [ok |-> rest.ok, str |-> <<Unhex(SubSeq(str, 2, 3))>> \o rest.str]
         ELSE [ok |-> FALSE, str |-> <<>>]
    ELSE LET rest == QueryUnescape(Tail(str))
             c == IF Head(str) = "+" THEN " " ELSE Head(str)
         IN  [ok |-> rest.ok, str |-> <<c>> \o rest.str]

\* Mutant of ListValues: the page token is added under the key of the page
\* size.
ListValuesTokenAsSize(r) ==
    (IF r.PageSize > 0 THEN <<<<"pageSize", Itoa(r.PageSize)>>>> ELSE <<>>)
    \o (IF r.PageToken # <<>> THEN <<<<"pageSize", r.PageToken>>>> ELSE <<>>)
    \o <<<<"excludeNonAppCreatedData", FormatBool(r.ExcludeNonAppCreatedData)>>>>

\* The url.Values that list fills from the request, in the order of the Add
\* calls: the page size when it is positive, the page token when it is not
\* empty, the flag always.
ListValues(r) ==
    (IF r.PageSize > 0 THEN <<<<"pageSize", Itoa(r.PageSize)>>>> ELSE <<>>)
    \o (IF r.PageToken # <<>> THEN <<<<"pageToken", r.PageToken>>>> ELSE <<>>)
    \o <<<<"excludeNonAppCreatedData", FormatBool(r.ExcludeNonAppCreatedData)>>>>

\* The keys list uses, in the sorted order url.Values.Encode writes them in.
SortedKeys == <<"excludeNonAppCreatedData", "pageSize", "pageToken">>

RECURSIVE SortByKey(_, _)
SortByKey(values, k) ==
    IF k > Len(SortedKeys)
    THEN <<>>
    ELSE LET HasKey(p) == p[1] = SortedKeys[k]
         IN  SelectSeq(values, HasKey) \o SortByKey(values, k + 1)

RECURSIVE JoinPairs(_)
JoinPairs(pairs) ==
    IF pairs = <<>>
    THEN <<>>
    ELSE <<pairs[1][1], "=">> \o QueryEscape(pairs[1][2])
         \o (IF Len(pairs) > 1 THEN <<"&">> \o JoinPairs(Tail(pairs)) ELSE <<>>)

\* url.Values.Encode: key=value pairs, sorted by key, values escaped, joined
\* with &.
Encode(values) == JoinPairs(SortByKey(values, 1))

\* The RawQuery of the URL list requests.
ListQuery(r) == Encode(ListValues(r))

\* Position of the first c in str, 0 when there is none.
IndexOf(str, c) ==
    IF \E i \in 1..Len(str) : str[i] = c
    THEN CHOOSE i \in 1..Len(str) : str[i] = c /\ \A j \in 1..(i - 1) : str[j] # c
    ELSE 0

\* url.ParseQuery: the query is split at &, each part at its first =, and the
\* value is unescaped; a part that cannot be unescaped is dropped and makes
\* the parse fail.
RECURSIVE ParseQuery(_)
ParseQuery(q) ==
    IF q = <<>>
    THEN [ok |-> TRUE, pairs |-> <<>>]
    ELSE LET i == IndexOf(q, "&")
             part == IF i = 0 THEN q ELSE SubSeq(q, 1, i - 1)
             rest == ParseQuery(IF i = 0 THEN <<>> ELSE SubSeq(q, i + 1, Len(q)))
             j == IndexOf(part, "=")
             key == IF j = 0 THEN part ELSE SubSeq(part, 1, j - 1)
             val == QueryUnescape(IF j = 0 THEN <<>> ELSE SubSeq(part, j + 1, Len(part)))
         IN  IF part = <<>>
             THEN rest
             ELSE IF val.ok
             THEN [ok |-> rest.ok, pairs |-> <<<<key, val.str>>>> \o rest.pairs]
             ELSE [ok |-> FALSE, pairs |-> rest.pairs]

\* url.Values.Has and url.Values.Get on parsed pairs.
Has(pairs, k) == \E i \in 1..Len(pairs) : pairs[i][1] = <<k>>

Get(pairs, k) ==
    IF Has(pairs, k)
    THEN pairs[CHOOSE i \in 1..Len(pairs) :
                 pairs[i][1] = <<k>> /\ \A j \in 1..(i - 1) : pairs[j][1] # <<k>>][2]
    ELSE <<>>

\* The list request a receiver reads from a query: a parameter that is
\* absent leaves the field at its zero value.
ReadListRequest(q) ==
    LET parsed == ParseQuery(q)
        size == IF Has(parsed.pairs, "pageSize")
                THEN Atoi(Get(parsed.pairs, "pageSize"))
                ELSE [ok |-> TRUE, n |-> 0]
        flag == IF Has(parsed.pairs, "excludeNonAppCreatedData")
                THEN ParseBool(Get(parsed.pairs, "excludeNonAppCreatedData"))
                ELSE [ok |-> TRUE, b |-> FALSE]
    IN  [ok |-> parsed.ok /\ size.ok /\ flag.ok,
         req |-> [PageSize |-> size.n,
                  PageToken |-> Get(parsed.pairs, "pageToken"),
                  ExcludeNonAppCreatedData |-> flag.b]]

\* encoding/json writes & inside a string as the six characters of its
\* unicode escape (the Encoder escapes HTML characters); the other characters
\* used here are written as they are.
JsonEscapeChar(c) ==
    IF c = "&" THEN <<"\\", "u", "0", "0", "2", "6">> ELSE <<c>>

RECURSIVE JsonEscape(_)
JsonEscape(str) ==
    IF str = <<>> THEN <<>> ELSE JsonEscapeChar(Head(str)) \o JsonEscape(Tail(str))

RECURSIVE JsonUnescape(_)
JsonUnescape(text) ==
    IF text = <<>>
    THEN [ok |-> TRUE, str |-> <<>>]
    ELSE IF Head(text) = "\\"
    THEN IF Len(text) >= 6 /\ SubSeq(text, 2, 6) = <<"u", "0", "0", "2", "6">>
         THEN LET rest == JsonUnescape(SubSeq(text, 7, Len(text)))
              IN  [ok |-> rest.ok, str |-> <<"&">> \o rest.str]
         ELSE [ok |-> FALSE, str |-> <<>>]
    ELSE LET rest == JsonUnescape(Tail(text))
         IN  [ok |-> rest.ok, str |-> <<Head(text)>> \o rest.str]

\* The fields of SearchMediaItemRequest with what encoding/json reads from
\* their tags.  The tag of PageToken has no closing quote, so no json key is
\* found in it: the member is named after the Go field and is never omitted.
\* Filters is a struct, which omitempty never omits.
SearchFields ==
    << [field |-> "AlbumID",   name |-> "albumId",   omitempty |-> TRUE,  type |-> "string"],
       [field |-> "PageSize",  name |-> "pageSize",  omitempty |-> TRUE,  type |-> "number"],
       [field |-> "PageToken", name |-> "PageToken", omitempty |-> FALSE, type |-> "string"],
       [field |-> "Filters",   name |-> "filters",   omitempty |-> TRUE,  type |-> "object"],
       [field |-> "OrderBy",   name |-> "orderBy",   omitempty |-> TRUE,  type |-> "string"] >>

FieldValue(r, f) ==
    CASE f = "AlbumID"   -> r.AlbumID
      [] f = "PageSize"  -> r.PageSize
      [] f = "PageToken" -> r.PageToken
      [] f = "Filters"   -> <<>>
      [] f = "OrderBy"   -> r.OrderBy

IsEmptyValue(type, v) ==
    CASE type = "string" -> v = <<>>
      [] type = "number" -> v = 0
      [] type = "object" -> FALSE

JsonText(type, v) ==
    CASE type = "string" -> JsonEscape(v)
      [] type = "number" -> Itoa(v)
      [] type = "object" -> <<>>

\* json.NewEncoder(b).Encode(&searchRequest): the members of the JSON object
\* of the body, in the order of the fields.
RECURSIVE MarshalFrom(_, _)
MarshalFrom(r, k) ==
    IF k > Len(SearchFields)
    THEN <<>>
    ELSE LET d == SearchFields[k]
             v == FieldValue(r, d.field)
         IN  (IF d.omitempty /\ IsEmptyValue(d.type, v)
              THEN <<>>
              ELSE <<[name |-> d.name, type |-> d.type, text |-> JsonText(d.type, v)]>>)
             \o MarshalFrom(r, k + 1)

SearchBody(r) == MarshalFrom(r, 1)

\* encoding/json matches a member to a field by name, ignoring case.
Fold(name) ==
    CASE name = "albumId"   -> "albumid"
      [] name = "pageSize"  -> "pagesize"
      [] name = "PageToken" -> "pagetoken"
      [] name = "pageToken" -> "pagetoken"
      [] name = "orderBy"   -> "orderby"
      [] OTHER              -> name

\* The members of the body that set the field described by d.
MembersOf(body, d) ==
    LET Matches(m) == Fold(m.name) = Fold(d.name) /\ m.type = d.type
    IN  SelectSeq(body, Matches)

\* json.NewDecoder(req.Body).Decode(&rtSearchReq), one string field: the
\* last member that matches sets it, no member leaves it empty.
DecodeString(body, d) ==
    LET ms == MembersOf(body, d)
    IN  IF ms = <<>>
        THEN [ok |-> TRUE, str |-> <<>>]
        ELSE JsonUnescape(ms[Len(ms)].text)

DecodeNumber(body, d) ==
    LET ms == MembersOf(body, d)
    IN  IF ms = <<>>
        THEN [ok |-> TRUE, n |-> 0]
        ELSE Atoi(ms[Len(ms)].text)

\* The search request the receiver of the body decodes.
ReadSearchRequest(body) ==
    LET album == DecodeString(body, SearchFields[1])
        size  == DecodeNumber(body, SearchFields[2])
        token == DecodeString(body, SearchFields[3])
        order == DecodeString(body, SearchFields[5])
    IN  [ok |-> album.ok /\ size.ok /\ token.ok /\ order.ok,
         req |-> [AlbumID |-> album.str, PageSize |-> size.n,
                  PageToken |-> token.str, OrderBy |-> order.str]]

\* The requests given to the builders.
ListInputs ==
    [PageSize : 0..MaxPageSize, PageToken : BuilderTokens,
     ExcludeNonAppCreatedData : BOOLEAN]

SearchInputs ==
    [AlbumID : {<<>>, <<"a">>}, PageSize : {0, DefaultPageSize},
     PageToken : BuilderTokens, OrderBy : {<<>>, <<"a">>}]

\* What a step of the builder leaves alone.
builderFrame == <<driverVars, fetcherVars, oauthVars, concVars>>

InitBuilder ==
    /\ listRequest = [PageSize |-> 0, PageToken |-> "",
                      ExcludeNonAppCreatedData |-> FALSE]
    /\ Start
    /\ bpc = "new"
    /\ \/ bKind = "list" /\ bReq \in ListInputs
       \/ bKind = "search" /\ bReq \in SearchInputs
    /\ bOut = <<>>
    /\ bBack = <<>>
    /\ FetcherIdle
    /\ OAuthIdle
    /\ ConcIdle

\* list builds the query of its URL.
BuildList ==
    /\ bpc = "new"
    /\ bKind = "list"
    /\ bOut' = ListQuery(bReq)
    /\ bpc' = "built"
    /\ UNCHANGED <<bKind, bReq, bBack>>
    /\ UNCHANGED builderFrame

\* search encodes its body.
BuildSearch ==
    /\ bpc = "new"
    /\ bKind = "search"
    /\ bOut' = SearchBody(bReq)
    /\ bpc' = "built"
    /\ UNCHANGED <<bKind, bReq, bBack>>
    /\ UNCHANGED builderFrame

\* The query is parsed back.
ParseList ==
    /\ bpc = "built"
    /\ bKind = "list"
    /\ bBack' = ReadListRequest(bOut)
    /\ bpc' = "parsed"
    /\ UNCHANGED <<bKind, bReq, bOut>>
    /\ UNCHANGED builderFrame

\* The body is decoded, as the round tripper of TestSearch does.
ParseSearch ==
    /\ bpc = "built"
    /\ bKind = "search"
    /\ bBack' = ReadSearchRequest(bOut)
    /\ bpc' = "parsed"
    /\ UNCHANGED <<bKind, bReq, bOut>>
    /\ UNCHANGED builderFrame

BuilderNext ==
    \/ BuildList
    \/ BuildSearch
    \/ ParseList
    \/ ParseSearch

BuilderSpec == InitBuilder /\ [][BuilderNext]_vars

----------------------------------------------------------------------------
\* The single-page fetcher: list of package albums, and list and search of
\* package mediaitems, which have the same steps after the request is built.
\* Get and Create of package albums and Get of package mediaitems take the
\* same steps on a response that holds one record.

\* The status codes a transport response may carry.
Statuses == {200, 401, 500}

\* What the transport may answer: a status code and a body that either has
\* the shape of a page (so many items and a next page token) or cannot be
\* decoded.
Responses ==
    {[status |-> st, valid |-> TRUE, page |-> [items |-> n, next |-> t]] :
        st \in Statuses, n \in 0..MaxPageLen, t \in Tokens}
    \cup {[status |-> st, valid |-> FALSE, page |-> ZeroResponse] :
        st \in Statuses}

\* The records of the single-item operations: an album or a media item,
\* told apart by its ID.
Records == [ID : {"x", "y"}]

\* var getAlbumResponse GetAlbumResponse: the record returned with every
\* error of a single-item operation.
ZeroRecord == [ID |-> ""]

\* The requests of the single-item operations.
GetAlbumRequest == [AlbumID : {"x", "y"}]

CreateAlbumRequest == [Album : {ZeroRecord}]

GetMediaItemRequest == [MediaItemID : {"x", "y"}]

\* The request is one of a single-item operation.
SingleItem(r) == DOMAIN r \cap {"AlbumID", "Album", "MediaItemID"} # {}

\* What the transport may answer to a single-item operation: a body that
\* holds a record, or one that cannot be decoded.
RecordResponses ==
    {[status |-> st, valid |-> TRUE, page |-> rec] :
        st \in Statuses, rec \in Records}
    \cup {[status |-> st, valid |-> FALSE, page |-> ZeroRecord] :
        st \in Statuses}

ResponsesFor(r) == IF SingleItem(r) THEN RecordResponses ELSE Responses

\* The value of the response variable before anything is decoded into it.
ZeroValue(r) == IF SingleItem(r) THEN ZeroRecord ELSE ZeroResponse

\* What a step of the fetcher leaves alone.
fetcherFrame == <<driverVars, builderVars, oauthVars, concVars>>

\* list, Get or Create is called with a request.
InitFetcher ==
    /\ listRequest = [PageSize |-> 0, PageToken |-> "",
                      ExcludeNonAppCreatedData |-> FALSE]
    /\ Start
    /\ BuilderIdle
    /\ fpc = "do"
    /\ fReq \in ListAlbumsRequest({0, DefaultPageSize}, BOOLEAN)
                \cup GetAlbumRequest \cup CreateAlbumRequest
                \cup GetMediaItemRequest
    /\ fResp = NoResponse
    /\ fBody = "none"
    /\ fCalls = 0
    /\ fRet = <<>>
    /\ OAuthIdle
    /\ ConcIdle

\* return listAlbumsResponse, err
FetcherReturn(page, err) ==
    /\ fRet' = [page |-> page, err |-> err]
    /\ fpc' = "returned"

\* resp, err := client.Do(req) with err == nil: the response comes with its
\* body open.
DoOK ==
    /\ fpc = "do"
    /\ \E r \in ResponsesFor(fReq) : fResp' = r
    /\ fBody' = "open"
    /\ fCalls' = fCalls + 1
    /\ fpc' = "decode"
    /\ UNCHANGED <<fReq, fRet>>
    /\ UNCHANGED fetcherFrame

\* Mutant of DoErr: a failed transport call is tried again.
DoErrRetries ==
    /\ fpc = "do"
    /\ fCalls' = fCalls + 1
    /\ IF fCalls + 1 < MaxFetches
         THEN UNCHANGED <<fpc, fRet>>
         ELSE FetcherReturn(ZeroValue(fReq), "transport")
    /\ UNCHANGED <<fReq, fResp, fBody>>
    /\ UNCHANGED fetcherFrame

\* resp, err := client.Do(req) with err != nil: there is no body, and list
\* returns the error.
DoErr ==
    /\ fpc = "do"
    /\ fCalls' = fCalls + 1
    /\ FetcherReturn(ZeroValue(fReq), "transport")
    /\ UNCHANGED <<fReq, fResp, fBody>>
    /\ UNCHANGED fetcherFrame

\* Mutant of DecodeOK: a response whose status code is not 200 is turned
\* into an error before its body is used.
DecodeOKChecksStatus ==
    /\ fpc = "decode"
    /\ fResp.valid
    /\ IF fResp.status = 200
         THEN /\ fpc' = "close"
              /\ UNCHANGED fRet
         ELSE FetcherReturn(ZeroValue(fReq), "status")
    /\ UNCHANGED <<fReq, fResp, fBody, fCalls>>
    /\ UNCHANGED fetcherFrame

\* json.NewDecoder(resp.Body).Decode(&listAlbumsResponse) succeeds: whatever
\* the status code, the response value is what the body holds.
DecodeOK ==
    /\ fpc = "decode"
    /\ fResp.valid
    /\ fpc' = "close"
    /\ UNCHANGED <<fReq, fResp, fBody, fCalls, fRet>>
    /\ UNCHANGED fetcherFrame

\* Decode fails: list returns the error at once; resp.Body.Close() is further
\* down and is not reached.
DecodeErr ==
    /\ fpc = "decode"
    /\ ~fResp.valid
    /\ FetcherReturn(ZeroValue(fReq), "decode")
    /\ UNCHANGED <<fReq, fResp, fBody, fCalls>>
    /\ UNCHANGED fetcherFrame

\* resp.Body.Close() returns nil: list returns the decoded response.
CloseOK ==
    /\ fpc = "close"
    /\ fBody' = "closed"
    /\ FetcherReturn(fResp.page, "nil")
    /\ UNCHANGED <<fReq, fResp, fCalls>>
    /\ UNCHANGED fetcherFrame

\* resp.Body.Close() returns an error: Close has run, and list returns the
\* decoded response with the error.
CloseErr ==
    /\ fpc = "close"
    /\ fBody' = "closed"
    /\ FetcherReturn(fResp.page, "close")
    /\ UNCHANGED <<fReq, fResp, fCalls>>
    /\ UNCHANGED fetcherFrame

FetcherNext ==
    \/ DoOK
    \/ DoErr
    \/ DecodeOK
    \/ DecodeErr
    \/ CloseOK
    \/ CloseErr

FetcherSpec == InitFetcher /\ [][FetcherNext]_vars

----------------------------------------------------------------------------
\* The login flow: NewClient and listenAndServerRedirect of package oauth2.

\* The values rand.Read and base64 may give the state nonce, and the values
\* the state parameter of a redirect callback may have: a callback is any
\* request that reaches the listener, sent by the browser that followed the
\* authorization URL or by anyone else.
Nonces == {"n1", "n2"}

\* The authorization codes a redirect callback may carry.
Codes == {"c1", "c2"}

\* What a step of the login flow leaves alone.
oauthFrame == <<driverVars, builderVars, fetcherVars, concVars>>

\* NewClient is called.
InitOAuth ==
    /\ listRequest = [PageSize |-> 0, PageToken |-> "",
                      ExcludeNonAppCreatedData |-> FALSE]
    /\ Start
    /\ BuilderIdle
    /\ FetcherIdle
    /\ opc = "new"
    /\ oState = ""
    /\ oServer = "none"
    /\ oShown = FALSE
    /\ oCallbacks = <<>>
    /\ oGot = <<>>
    /\ oCancelled = FALSE
    /\ oShut = "none"
    /\ oExch = "none"
    /\ oSteps = <<>>
    /\ oRet = NoClient
    /\ ConcIdle

\* if state != string(state): the handler compares the state parameter of
\* the query with itself; the nonce of NewClient is not passed to
\* listenAndServerRedirect and takes no part.
StateRejected(state, nonce) == state # state

\* return nil, err
NewClientFails(err) ==
    /\ oRet' = [client |-> FALSE, err |-> err, code |-> ""]
    /\ opc' = "returned"

\* Mutant of ShutdownErr: the error of server.Shutdown is dropped and
\* NewClient goes on to the exchange.
ShutdownErrIgnored ==
    /\ opc = "shutdown"
    /\ oShut' = "err"
    /\ oSteps' = Append(oSteps, "shutdown")
    /\ opc' = "exchange"
    /\ UNCHANGED <<oState, oServer, oShown, oCallbacks, oGot, oCancelled,
                   oExch, oRet>>
    /\ UNCHANGED oauthFrame

\* rand.Read and url.Parse succeed: the nonce and the verifier are
\* generated.
NewState ==
    /\ opc = "new"
    /\ \E n \in Nonces : oState' = n
    /\ opc' = "serve"
    /\ UNCHANGED <<oServer, oShown, oCallbacks, oGot, oCancelled, oShut,
                   oExch, oSteps, oRet>>
    /\ UNCHANGED oauthFrame

\* rand.Read or url.Parse fails: NewClient returns the error before any
\* listener is started.
NewStateErr ==
    /\ opc = "new"
    /\ NewClientFails("setup")
    /\ UNCHANGED <<oState, oServer, oShown, oCallbacks, oGot, oCancelled,
                   oShut, oExch, oSteps>>
    /\ UNCHANGED oauthFrame

\* server := listenAndServerRedirect(redirectURL, codeCh): the server is
\* built and its goroutine is started.
StartListener ==
    /\ opc = "serve"
    /\ oServer' = "running"
    /\ oSteps' = Append(oSteps, "listen")
    /\ opc' = "present"
    /\ UNCHANGED <<oState, oShown, oCallbacks, oGot, oCancelled, oShut,
                   oExch, oRet>>
    /\ UNCHANGED oauthFrame

\* server.ListenAndServe() returns an error other than ErrServerClosed: the
\* goroutine panics and the process ends.
ListenPanic ==
    /\ oServer = "running"
    /\ opc # "returned"
    /\ oServer' = "failed"
    /\ opc' = "crashed"
    /\ UNCHANGED <<oState, oShown, oCallbacks, oGot, oCancelled, oShut,
                   oExch, oSteps, oRet>>
    /\ UNCHANGED oauthFrame

\* authURL := config.AuthCodeURL(state, ...); go cfg.authCodeURLHandlerFn(authURL)
PresentURL ==
    /\ opc = "present"
    /\ oShown' = TRUE
    /\ oSteps' = Append(oSteps, "present")
    /\ opc' = "wait"
    /\ UNCHANGED <<oState, oServer, oCallbacks, oGot, oCancelled, oShut,
                   oExch, oRet>>
    /\ UNCHANGED oauthFrame

\* A redirect callback reaches the listener and the handler runs up to the
\* send on codeCh: it reads the state of the query, answers 401 and returns
\* if the state is rejected, and otherwise blocks on codeCh <- code.
Callback ==
    /\ oServer = "running"
    /\ opc \in {"present", "wait", "shutdown"}
    /\ Len(oCallbacks) < MaxCallbacks
    /\ \E st \in Nonces, code \in Codes :
          oCallbacks' = Append(oCallbacks,
              IF StateRejected(st, oState)
                THEN [pc |-> "answered", state |-> st, code |-> code,
                      status |-> 401]
                ELSE [pc |-> "send", state |-> st, code |-> code,
                      status |-> 0])
    /\ UNCHANGED <<opc, oState, oServer, oShown, oGot, oCancelled, oShut,
                   oExch, oSteps, oRet>>
    /\ UNCHANGED oauthFrame

\* Mutant of ReceiveCode: the receive is in a select with ctx.Done()
\* (select { case code = <-codeCh: case <-ctx.Done(): return nil, ctx.Err() }).
ReceiveCodeOrDone ==
    /\ opc = "wait"
    /\ \/ /\ \E i \in 1..Len(oCallbacks) :
                /\ oCallbacks[i].pc = "send"
                /\ oCallbacks' = [oCallbacks EXCEPT ![i].pc = "sent"]
                /\ oGot' = Append(oGot,
                                  [code |-> oCallbacks[i].code, from |-> i])
          /\ oSteps' = Append(oSteps, "code")
          /\ opc' = "shutdown"
          /\ UNCHANGED oRet
       \/ /\ oCancelled
          /\ NewClientFails("cancelled")
          /\ UNCHANGED <<oCallbacks, oGot, oSteps>>
    /\ UNCHANGED <<oState, oServer, oShown, oCancelled, oShut, oExch>>
    /\ UNCHANGED oauthFrame

\* codeCh <- query.Get("code") meets code := <-codeCh: the channel has no
\* buffer, so one handler hands its code over when NewClient is receiving.
ReceiveCode ==
    /\ opc = "wait"
    /\ \E i \in 1..Len(oCallbacks) :
          /\ oCallbacks[i].pc = "send"
          /\ oCallbacks' = [oCallbacks EXCEPT ![i].pc = "sent"]
          /\ oGot' = Append(oGot, [code |-> oCallbacks[i].code, from |-> i])
    /\ oSteps' = Append(oSteps, "code")
    /\ opc' = "shutdown"
    /\ UNCHANGED <<oState, oServer, oShown, oCancelled, oShut, oExch, oRet>>
    /\ UNCHANGED oauthFrame

\* w.WriteHeader(http.StatusOK); w.Write("Authenticated Successfully")
HandlerAnswer ==
    /\ \E i \in 1..Len(oCallbacks) :
          /\ oCallbacks[i].pc = "sent"
          /\ oCallbacks' = [oCallbacks EXCEPT ![i].pc = "answered",
                                              ![i].status = 200]
    /\ UNCHANGED <<opc, oState, oServer, oShown, oGot, oCancelled, oShut,
                   oExch, oSteps, oRet>>
    /\ UNCHANGED oauthFrame

\* server.Shutdown(ctx) returns nil: the listener is closed.
ShutdownOK ==
    /\ opc = "shutdown"
    /\ oServer' = "closed"
    /\ oShut' = "ok"
    /\ oSteps' = Append(oSteps, "shutdown")
    /\ opc' = "exchange"
    /\ UNCHANGED <<oState, oShown, oCallbacks, oGot, oCancelled, oExch, oRet>>
    /\ UNCHANGED oauthFrame

\* server.Shutdown(ctx) returns an error (the listener fails to close, or ctx
\* is done while a handler is still running): NewClient returns it.
ShutdownErr ==
    /\ opc = "shutdown"
    /\ oServer' = "closed"
    /\ oShut' = "err"
    /\ oSteps' = Append(oSteps, "shutdown")
    /\ NewClientFails("shutdown")
    /\ UNCHANGED <<oState, oShown, oCallbacks, oGot, oCancelled, oExch>>
    /\ UNCHANGED oauthFrame

\* token, err := config.Exchange(ctx, code, ...) with err == nil, which takes
\* a ctx that is not done: NewClient returns config.Client(ctx, token).
ExchangeOK ==
    /\ opc = "exchange"
    /\ ~oCancelled
    /\ oExch' = "ok"
    /\ oSteps' = Append(oSteps, "exchange")
    /\ oRet' = [client |-> TRUE, err |-> "nil", code |-> oGot[Len(oGot)].code]
    /\ opc' = "returned"
    /\ UNCHANGED <<oState, oServer, oShown, oCallbacks, oGot, oCancelled,
                   oShut>>
    /\ UNCHANGED oauthFrame

\* config.Exchange returns an error: NewClient returns it.
ExchangeErr ==
    /\ opc = "exchange"
    /\ oExch' = "err"
    /\ oSteps' = Append(oSteps, "exchange")
    /\ NewClientFails("exchange")
    /\ UNCHANGED <<oState, oServer, oShown, oCallbacks, oGot, oCancelled,
                   oShut>>
    /\ UNCHANGED oauthFrame

\* The owner of ctx cancels it.
OAuthCancel ==
    /\ ~oCancelled
    /\ opc \notin {"returned", "crashed"}
    /\ oCancelled' = TRUE
    /\ UNCHANGED <<opc, oState, oServer, oShown, oCallbacks, oGot, oShut,
                   oExch, oSteps, oRet>>
    /\ UNCHANGED oauthFrame

OAuthNext ==
    \/ NewState
    \/ NewStateErr
    \/ StartListener
    \/ ListenPanic
    \/ PresentURL
    \/ Callback
    \/ ReceiveCode
    \/ HandlerAnswer
    \/ ShutdownOK
    \/ ShutdownErr
    \/ ExchangeOK
    \/ ExchangeErr
    \/ OAuthCancel

OAuthSpec == InitOAuth /\ [][OAuthNext]_vars

----------------------------------------------------------------------------
\* Two calls of List at the same time.  Each call of List makes its own
\* albumCh and errCh and starts its own goroutine with its own copy of the
\* request; the calls share client and, here, the server behind it, which
\* answers a page token the same way whoever asks.

Calls == {1, 2}

\* The page the server holds for token t has as many items as PageLenOf(t).
PageLenOf(t) ==
    IF t = "" THEN MaxPageLen ELSE IF t = "a" THEN 1 ELSE 0

\* What the server may hold: for each page token, a failure or a page
\* followed by any token.
Transports ==
    [Tokens -> [ok : {TRUE}, next : Tokens] \cup {[ok |-> FALSE, next |-> ""]}]

\* What list returns for token t on transport tr (NoPage with an error).
TransportPage(tr, t) ==
    IF tr[t].ok
    THEN [ok |-> TRUE,
          items |-> [i \in 1..PageLenOf(t) |-> <<t, i>>],
          next |-> tr[t].next]
    ELSE NoPage

\* What a step of the two calls leaves alone.
concFrame == <<driverVars, builderVars, fetcherVars, oauthVars>>

\* A call of List that has just started its goroutine with request r.
NewCall(r) ==
    [pc |-> "poll", start |-> r, req |-> r, resp |-> NoPage, idx |-> 0,
     cancelled |-> FALSE, closeCount |-> 0, outcome |-> "none",
     received |-> <<>>, errs |-> <<>>, issued |-> <<>>]

InitConc ==
    /\ listRequest = [PageSize |-> 0, PageToken |-> "",
                      ExcludeNonAppCreatedData |-> FALSE]
    /\ Start
    /\ BuilderIdle
    /\ FetcherIdle
    /\ OAuthIdle
    /\ transport \in Transports
    /\ \E r1 \in ListAlbumsRequest({0}, {FALSE}),
          r2 \in ListAlbumsRequest({0}, {FALSE}) :
          calls = [c \in Calls |-> IF c = 1 THEN NewCall(r1) ELSE NewCall(r2)]

\* Mutant of CallRequest: req is one variable that the goroutines of both
\* calls close over (go func() {...}() and req declared outside List).
CallRequestShared(c) == calls[1].req

\* req of the goroutine of call c: the parameter of go func(req
\* ListAlbumsRequest) {...}(listAlbumsRequest), a copy of its own.
CallRequest(c) == calls[c].req

\* defer close(albumCh) and return, for one call.
CallReturn(call, how) ==
    [call EXCEPT !.pc = "done", !.outcome = how, !.closeCount = @ + 1]

\* The range loop of one call at index i of page, and what follows it (as
\* Advance).
CallAdvance(call, page, i) ==
    IF i <= Len(page.items)
    THEN [call EXCEPT !.pc = "emit", !.resp = page, !.idx = i]
    ELSE IF page.next = ""
    THEN CallReturn([call EXCEPT !.resp = page, !.idx = i], "Done")
    ELSE [call EXCEPT !.pc = "poll", !.resp = page, !.idx = i,
                      !.req = [@ EXCEPT !.PageToken = page.next]]

\* The poll of ctx.Done() with ctx done.
CallPollCancelled(c) ==
    /\ calls[c].pc = "poll"
    /\ calls[c].cancelled
    /\ calls' = [calls EXCEPT ![c] = CallReturn(@, "Cancelled")]
    /\ UNCHANGED transport
    /\ UNCHANGED concFrame

\* The default branch of the poll: list(ctx, client, req) is called.
CallPollContinue(c) ==
    /\ calls[c].pc = "poll"
    /\ ~calls[c].cancelled
    /\ Len(calls[c].issued) < MaxFetches
    /\ calls' = [calls EXCEPT ![c].pc = "fetch",
                              ![c].issued = Append(@, CallRequest(c))]
    /\ UNCHANGED transport
    /\ UNCHANGED concFrame

\* list returns the page the server holds for the token requested.
CallFetchOK(c) ==
    /\ calls[c].pc = "fetch"
    /\ LET t == calls[c].issued[Len(calls[c].issued)].PageToken
           page == TransportPage(transport, t)
       IN  /\ page.ok
           /\ calls' = [calls EXCEPT ![c] = CallAdvance(@, page, 1)]
    /\ UNCHANGED transport
    /\ UNCHANGED concFrame

\* list returns an error: the goroutine blocks in errCh <- err.
CallFetchErr(c) ==
    /\ calls[c].pc = "fetch"
    /\ LET t == calls[c].issued[Len(calls[c].issued)].PageToken
       IN  ~TransportPage(transport, t).ok
    /\ calls' = [calls EXCEPT ![c].pc = "senderr"]
    /\ UNCHANGED transport
    /\ UNCHANGED concFrame

\* The consumer of call c receives from its errCh and the goroutine returns.
CallRecvErr(c) ==
    /\ calls[c].pc = "senderr"
    /\ calls' = [calls EXCEPT
                    ![c] = CallReturn([@ EXCEPT !.errs = Append(@, "err")],
                                      "Failed")]
    /\ UNCHANGED transport
    /\ UNCHANGED concFrame

\* case albumCh <- album: the consumer of call c receives the item.
CallEmitItem(c) ==
    /\ calls[c].pc = "emit"
    /\ LET call == calls[c]
           sent == [call EXCEPT
                       !.received = Append(@, call.resp.items[call.idx])]
       IN  calls' = [calls EXCEPT
                        ![c] = CallAdvance(sent, call.resp, call.idx + 1)]
    /\ UNCHANGED transport
    /\ UNCHANGED concFrame

\* case <-ctx.Done(): return, in the select of the range loop.
CallAbortEmit(c) ==
    /\ calls[c].pc = "emit"
    /\ calls[c].cancelled
    /\ calls' = [calls EXCEPT ![c] = CallReturn(@, "Cancelled")]
    /\ UNCHANGED transport
    /\ UNCHANGED concFrame

\* The owner of the ctx of call c cancels it.
CallCancel(c) ==
    /\ ~calls[c].cancelled
    /\ calls[c].pc # "done"
    /\ calls' = [calls EXCEPT ![c].cancelled = TRUE]
    /\ UNCHANGED transport
    /\ UNCHANGED concFrame

ConcNext ==
    \E c \in Calls :
        \/ CallPollCancelled(c)
        \/ CallPollContinue(c)
        \/ CallFetchOK(c)
        \/ CallFetchErr(c)
        \/ CallRecvErr(c)
        \/ CallEmitItem(c)
        \/ CallAbortEmit(c)
        \/ CallCancel(c)

ConcSpec == InitConc /\ [][ConcNext]_vars

----------------------------------------------------------------------------
\* Derived from the histories.

RECURSIVE ConcatItems(_)
ConcatItems(pages) ==
    IF pages = <<>>
    THEN <<>>
    ELSE ConcatItems(SubSeq(pages, 1, Len(pages) - 1)) \o pages[Len(pages)].items

HasFailure == \E k \in 1..Len(fetched) : ~fetched[k].ok

----------------------------------------------------------------------------
\* C1: when the goroutine has returned with every fetch successful and no
\* cancellation, the pages fetched form a chain P1..Pn (non-empty next page
\* token on all but the last, empty on the last), the consumer has received
\* exactly the concatenation of their items in order, no error was delivered
\* and albumCh is closed.
C1_ConcatOfPages ==
    (pc = "done" /\ ~cancelled /\ ~HasFailure) =>
        /\ outcome = "Done"
        /\ fetched # <<>>
        /\ fetched[Len(fetched)].next = ""
        /\ \A k \in 1..(Len(fetched) - 1) : fetched[k].next # ""
        /\ received = ConcatItems(fetched)
        /\ errs = <<>>
        /\ closeCount = 1

C1_Witness ==
    /\ pc = "done"
    /\ ~cancelled
    /\ ~HasFailure
    /\ Len(fetched) = 2
    /\ Len(received) = 3

\* C2: once a fetch has failed it is the last fetch issued (no retry, no later
\* page), everything of the pages before it has been received and nothing
\* else, and exactly one error is delivered: none while the goroutine is
\* still sending it, one when it has returned.
C2_FailFast ==
    HasFailure =>
        /\ ~fetched[Len(fetched)].ok
        /\ \A k \in 1..(Len(fetched) - 1) : fetched[k].ok
        /\ Len(issued) = Len(fetched)
        /\ received = ConcatItems(fetched)
        /\ pc \in {"senderr", "done"}
        /\ (pc = "senderr" => errs = <<>>)
        /\ (pc = "done" => Len(errs) = 1 /\ outcome = "Failed")

C2_Witness ==
    /\ outcome = "Failed"
    /\ ~cancelled
    /\ Len(fetched) = 3
    /\ Len(received) >= 2
    /\ Len(errs) = 1

\* C3 (as claimed): a run in which ctx is cancelled before a fetch, while a
\* fetch is in flight or during emission delivers no error.
C3_NoErrorOnceCancelled ==
    (cancelled /\ atCancel.pc \in {"poll", "fetch", "emit"}) => errs = <<>>

\* C4: with ctx done at the poll at the top of an iteration the goroutine's
\* only step is the return that closes albumCh: no call of list, no item, no
\* error, and the goroutine takes it; and when ctx is done before the first
\* call of list the run has no fetch, no item and no error at all.
C4_PolledCancelStep ==
    (pc = "poll" /\ cancelled) =>
        /\ issued' = issued
        /\ fetched' = fetched
        /\ received' = received
        /\ errs' = errs
        /\ pc' \in {"poll", "done"}
        /\ (pc' = "done" => closeCount' = closeCount + 1 /\ outcome' = "Cancelled")

C4_CancelBeforeAnyFetch ==
    (cancelled /\ atCancel.pc = "poll" /\ atCancel.issued = 0) =>
        /\ issued = <<>>
        /\ fetched = <<>>
        /\ received = <<>>
        /\ errs = <<>>
        /\ pc \in {"poll", "done"}

C4_CancelledAtPoll ==
    /\ []C4_CancelBeforeAnyFetch
    /\ [][C4_PolledCancelStep]_vars
    /\ (pc = "poll" /\ cancelled) ~> (pc = "done" /\ closeCount = 1)

C4_Witness ==
    /\ outcome = "Cancelled"
    /\ closeCount = 1
    /\ atCancel.pc = "poll"
    /\ issued = <<>>

\* C5 (as claimed): when ctx is cancelled during the emission of a page after
\* M of its items were received, no further item is received, no error is
\* delivered and no further fetch is issued.
C5_ExactlyMItems ==
    (cancelled /\ atCancel.pc = "emit") =>
        /\ Len(received) = atCancel.recv
        /\ errs = <<>>
        /\ Len(issued) = atCancel.issued

\* C6: a goroutine blocked in the send of an item to a consumer that has
\* stopped receiving returns once ctx is cancelled, closing albumCh; the
\* pending item is not delivered and no error is.
C6_AbandonedRun ==
    (pc = "done" /\ atCancel.pc = "emit" /\ atCancel.gone) =>
        /\ outcome = "Cancelled"
        /\ Len(received) = atCancel.recv
        /\ Len(received) < Len(ConcatItems(fetched))
        /\ errs = <<>>

C6_PendingPublishAborts ==
    /\ (pc = "emit" /\ consumerGone /\ cancelled)
           ~> (pc = "done" /\ closeCount = 1 /\ outcome = "Cancelled")
    /\ []C6_AbandonedRun

C6_Witness ==
    /\ pc = "done"
    /\ outcome = "Cancelled"
    /\ atCancel.pc = "emit"
    /\ atCancel.gone
    /\ closeCount = 1

\* C7: albumCh is closed at most once, it is closed exactly when the
\* goroutine has returned, whichever of Done, Failed and Cancelled the
\* return was, and nothing is received from it after the close.
C7_ClosedState ==
    /\ closeCount <= 1
    /\ (pc = "done") <=> (closeCount = 1)
    /\ (pc = "done") <=> (outcome \in {"Done", "Failed", "Cancelled"})
    /\ (pc # "done") <=> (outcome = "none")

C7_ClosedOnce ==
    /\ []C7_ClosedState
    /\ [][closeCount >= 1 => received' = received]_vars

C7_Witness ==
    /\ outcome = "Cancelled"
    /\ closeCount = 1
    /\ atCancel.pc = "emit"
    /\ Len(received) >= 1

\* C8: a run that ends in Failed has delivered exactly one error, and albumCh
\* is still open for as long as the error of a failed fetch has not been
\* received.
C8_ErrorBeforeClose ==
    /\ (outcome = "Failed" => Len(errs) = 1)
    /\ (pc = "senderr" => closeCount = 0 /\ errs = <<>>)
    /\ ((HasFailure /\ closeCount >= 1) => Len(errs) = 1)
    /\ (errs # <<>> => HasFailure /\ outcome = "Failed")

C8_Witness ==
    /\ outcome = "Failed"
    /\ closeCount = 1
    /\ Len(errs) = 1
    /\ Len(fetched) = 1

\* C9: at most one call of list is in flight; while one is, every item of
\* every page fetched before has been received; and while an item is offered
\* it is the only item taken from the pages that has not been received.
C9_OnePageAtATime ==
    /\ Len(fetched) <= Len(issued)
    /\ Len(issued) <= Len(fetched) + 1
    /\ (pc = "fetch") <=> (Len(issued) = Len(fetched) + 1)
    /\ (pc = "fetch" => received = ConcatItems(fetched))
    /\ (pc = "emit" =>
            /\ idx \in 1..Len(resp.items)
            /\ resp = fetched[Len(fetched)]
            /\ Len(received) + 1 =
                 Len(ConcatItems(SubSeq(fetched, 1, Len(fetched) - 1))) + idx)

C9_Witness ==
    /\ pc = "fetch"
    /\ Len(fetched) = 2
    /\ Len(received) = 4

\* C10 (as claimed): after ctx is cancelled at most one call of list
\* completes, at most one more item is received and no call of list starts.
C10_BoundedAfterCancel ==
    cancelled =>
        /\ Len(fetched) <= atCancel.fetched + 1
        /\ Len(received) <= atCancel.recv + 1
        /\ Len(issued) = atCancel.issued

\* C11: a first page with no items and an empty NextPageToken ends the run at
\* once: one call of list, no item, no error, albumCh closed, outcome Done.
C11_EmptyFirstPage ==
    (fetched # <<>> /\ fetched[1].ok /\ fetched[1].items = <<>>
        /\ fetched[1].next = "") =>
        /\ pc = "done"
        /\ outcome = "Done"
        /\ Len(issued) = 1
        /\ Len(fetched) = 1
        /\ received = <<>>
        /\ errs = <<>>
        /\ closeCount = 1

C11_Witness ==
    /\ Len(fetched) = 1
    /\ fetched[1].ok
    /\ fetched[1].items = <<>>
    /\ fetched[1].next = ""
    /\ outcome = "Done"

\* C12: the first call of list carries the caller's page token; every later
\* call carries the NextPageToken of the page before it, which is not empty;
\* a run that ends Done ends on an empty NextPageToken; and, short of
\* cancellation, once the items of a page with a non-empty NextPageToken are
\* all received the goroutine is at the top of the loop with that token.
C12_TokenChain ==
    /\ (issued # <<>> => issued[1].PageToken = listRequest.PageToken)
    /\ \A k \in 1..(Len(issued) - 1) :
        /\ fetched[k].ok
        /\ fetched[k].next # ""
        /\ issued[k + 1].PageToken = fetched[k].next
    /\ (outcome = "Done" => fetched[Len(fetched)].next = "")
    /\ ((fetched # <<>> /\ Len(issued) = Len(fetched) /\ ~cancelled
            /\ fetched[Len(fetched)].ok /\ fetched[Len(fetched)].next # ""
            /\ received = ConcatItems(fetched)) =>
          /\ pc = "poll"
          /\ req.PageToken = fetched[Len(fetched)].next)

C12_Witness ==
    /\ Len(issued) = 3
    /\ listRequest.PageToken = "b"
    /\ issued[1].PageToken = "b"
    /\ issued[2].PageToken = "a"
    /\ issued[3].PageToken = "a"
    /\ fetched[1].next = "a"
    /\ fetched[2].next = "a"

\* C13: while every page fetched carries the same non-empty NextPageToken and
\* ctx is not cancelled the goroutine has not returned; a return is always
\* due to an empty NextPageToken, a failed fetch or cancellation; and with
\* calls of list that return and a consumer that receives, a run goes on
\* issuing calls (up to the bound of the model) unless a page carries an
\* empty token, a fetch fails, ctx is cancelled or the consumer leaves.
SameTokenEveryPage ==
    /\ fetched # <<>>
    /\ fetched[1].next # ""
    /\ \A k \in 1..Len(fetched) : fetched[k].ok /\ fetched[k].next = fetched[1].next

SomePageEndsIt ==
    \E k \in 1..Len(fetched) : ~fetched[k].ok \/ fetched[k].next = ""

C13_NoReturnOnRepeat ==
    /\ ((SameTokenEveryPage /\ ~cancelled) => (pc # "done" /\ outcome = "none"))
    /\ (outcome = "Done" => fetched[Len(fetched)].next = "")
    /\ (outcome = "Failed" => HasFailure)
    /\ (outcome = "Cancelled" => cancelled)

C13_RepeatedTokenLoops ==
    /\ []C13_NoReturnOnRepeat
    /\ <>(\/ Len(issued) = MaxFetches
          \/ SomePageEndsIt
          \/ cancelled
          \/ consumerGone)

C13_Witness ==
    /\ SameTokenEveryPage
    /\ ~cancelled
    /\ Len(fetched) = MaxFetches
    /\ pc = "poll"
    /\ req.PageToken = fetched[1].next
    /\ issued[1].PageToken = fetched[1].next

\* C20: every request passed to list, and the goroutine's copy at any time,
\* has the page size and the flag of the caller's request: only the page
\* token differs; and the caller's request never changes.
C20_OnlyTokenDiffers ==
    /\ req.PageSize = listRequest.PageSize
    /\ req.ExcludeNonAppCreatedData = listRequest.ExcludeNonAppCreatedData
    /\ \A k \in 1..Len(issued) :
        /\ issued[k].PageSize = listRequest.PageSize
        /\ issued[k].ExcludeNonAppCreatedData = listRequest.ExcludeNonAppCreatedData

C20_RequestCopy ==
    /\ []C20_OnlyTokenDiffers
    /\ [][listRequest' = listRequest]_vars

C20_Witness ==
    /\ Len(issued) = 2
    /\ listRequest.PageSize = DefaultPageSize
    /\ listRequest.ExcludeNonAppCreatedData
    /\ issued[2].PageToken # listRequest.PageToken

\* C14 (as claimed): in the query list builds, a parameter is present exactly
\* when its field is not at its default: pageSize when it is not 0, pageToken
\* when it is not empty, excludeNonAppCreatedData when it is true.
InQuery(k) == \E i \in 1..Len(bOut) : bOut[i] = k

C14_OnlyNonDefaultParams ==
    (bKind = "list" /\ bpc # "new") =>
        /\ InQuery("pageSize") <=> (bReq.PageSize # 0)
        /\ InQuery("pageToken") <=> (bReq.PageToken # <<>>)
        /\ InQuery("excludeNonAppCreatedData") <=> bReq.ExcludeNonAppCreatedData

\* C15: what is read back from the built query or body is the request that
\* was given: every field that was sent is recovered and every field that was
\* omitted reads back as its zero value.
C15_RoundTrip ==
    (bpc = "parsed") => (bBack.ok /\ bBack.req = bReq)

C15_Witness ==
    /\ bpc = "parsed"
    /\ bKind = "list"
    /\ bReq.PageSize = MaxPageSize
    /\ bReq.PageToken = <<"&", "=">>
    /\ ~bReq.ExcludeNonAppCreatedData
    /\ bBack.req = bReq

\* C16: every response body that list obtained from a successful transport
\* call has been closed when list has returned, whether the decoding of the
\* body succeeded or failed.
C16_BodyClosedOnReturn ==
    (fpc = "returned" /\ fBody # "none") => fBody = "closed"

\* C18: a redirect callback whose state parameter differs from the nonce
\* NewClient generated is answered 401 by the handler and hands no code to
\* NewClient.
C18_MismatchedStateRejected ==
    \A i \in 1..Len(oCallbacks) :
        oCallbacks[i].state # oState =>
            /\ oCallbacks[i].pc = "answered"
            /\ oCallbacks[i].status = 401
            /\ \A k \in 1..Len(oGot) : oGot[k].from # i

\* The order of the steps of NewClient.
NewClientOrder == <<"listen", "present", "code", "shutdown", "exchange">>

IsPrefix(a, b) ==
    /\ Len(a) <= Len(b)
    /\ \A i \in 1..Len(a) : a[i] = b[i]

\* C19: NewClient starts the listener, presents the authorization URL,
\* receives exactly one code from a redirect callback, shuts the listener
\* down and exchanges that code, in this order; it returns a client exactly
\* when the shutdown and the exchange both succeeded, and an error and no
\* client otherwise.
C19_NewClientOrder ==
    /\ IsPrefix(oSteps, NewClientOrder)
    /\ Len(oGot) <= 1
    /\ (opc \in {"shutdown", "exchange"} \/ oShut # "none") => Len(oGot) = 1
    /\ (opc = "wait") => (oServer = "running" /\ oShown /\ oGot = <<>>)
    /\ (oExch # "none") => (oShut = "ok" /\ oServer = "closed")
    /\ (opc = "returned") =>
          /\ oRet.client <=> (oShut = "ok" /\ oExch = "ok")
          /\ oRet.client <=> (oRet.err = "nil")
          /\ oRet.client => (oRet.code = oGot[1].code)

C19_Witness ==
    /\ opc = "returned"
    /\ oRet.client
    /\ oSteps = NewClientOrder
    /\ Len(oCallbacks) = MaxCallbacks

\* What a call of List that runs alone on transport tr requests, emits and
\* reports when it starts from token t and makes at most k calls of list:
\* the chain of tokens, the items of the pages of the chain, the errors.
RECURSIVE AloneTokens(_, _, _)
AloneTokens(tr, t, k) ==
    IF k = 0 THEN <<>>
    ELSE <<t>> \o (IF tr[t].ok /\ tr[t].next # ""
                     THEN AloneTokens(tr, tr[t].next, k - 1)
                     ELSE <<>>)

RECURSIVE AloneItems(_, _, _)
AloneItems(tr, t, k) ==
    IF k = 0 \/ ~tr[t].ok THEN <<>>
    ELSE TransportPage(tr, t).items
         \o (IF tr[t].next # "" THEN AloneItems(tr, tr[t].next, k - 1)
                                ELSE <<>>)

RECURSIVE AloneErrs(_, _, _)
AloneErrs(tr, t, k) ==
    IF k = 0 THEN <<>>
    ELSE IF ~tr[t].ok THEN <<"err">>
    ELSE IF tr[t].next = "" THEN <<>>
    ELSE AloneErrs(tr, tr[t].next, k - 1)

\* The tokens call c has requested.
TokensOf(c) == [k \in 1..Len(calls[c].issued) |-> calls[c].issued[k].PageToken]

\* What call c has done so far is the beginning of what it does alone, and
\* all of it once the call has returned Done or Failed.
SameAsAlone(c) ==
    LET t == calls[c].start.PageToken
    IN  /\ IsPrefix(TokensOf(c), AloneTokens(transport, t, MaxFetches))
        /\ IsPrefix(calls[c].received, AloneItems(transport, t, MaxFetches))
        /\ IsPrefix(calls[c].errs, AloneErrs(transport, t, MaxFetches))
        /\ calls[c].outcome \in {"Done", "Failed"} =>
              /\ TokensOf(c) = AloneTokens(transport, t, MaxFetches)
              /\ calls[c].received = AloneItems(transport, t, MaxFetches)
              /\ calls[c].errs = AloneErrs(transport, t, MaxFetches)

\* Every step is a step of one call and changes nothing of the other call
\* nor of the transport.
C17_OneCallPerStep ==
    [][/\ transport' = transport
       /\ \A c \in Calls :
             calls'[c] # calls[c] =>
                \A d \in Calls \ {c} : calls'[d] = calls[d]]_vars

\* C17: two calls of List running at the same time on one transport each
\* request the tokens, emit the items and deliver the errors that the call
\* does when it runs alone, under every interleaving, and a step of one call
\* leaves the state of the other as it is.
C17_ConcurrentCallsIndependent ==
    /\ [](\A c \in Calls : SameAsAlone(c))
    /\ C17_OneCallPerStep

C17_Witness ==
    /\ calls[1].outcome = "Done"
    /\ calls[2].outcome = "Done"
    /\ calls[1].start.PageToken # calls[2].start.PageToken
    /\ Len(calls[1].issued) > 1
    /\ Len(calls[2].issued) > 1
    /\ calls[1].received # <<>>
    /\ calls[2].received # <<>>
    /\ \E k \in 1..Len(calls[1].issued), j \in 1..Len(calls[2].issued) :
          calls[1].issued[k] = calls[2].issued[j]

\* What list returns for a response is settled by the body of the response
\* and by what closing it returns, whatever the status code: the value the
\* body holds, or the zero value with the decode error.
ResultOfBody(valid, page, closed) ==
    IF ~valid THEN [page |-> ZeroValue(fReq), err |-> "decode"]
    ELSE [page |-> page, err |-> closed]

\* C21: the result of a fetch does not depend on the status code of the
\* response: two responses with the same body give the same result, and a
\* response that is not a 2xx whose body has the shape of a page is returned
\* as that page with no error.
C21_StatusCodeIgnored ==
    (fpc = "returned" /\ fBody # "none") =>
        \E closed \in {"nil", "close"} :
            fRet = ResultOfBody(fResp.valid, fResp.page, closed)

C21_Witness ==
    /\ fpc = "returned"
    /\ fResp.status = 500
    /\ fResp.valid
    /\ ~SingleItem(fReq)
    /\ fResp.page.items > 0
    /\ fRet = [page |-> fResp.page, err |-> "nil"]

\* C22: Get and Create of package albums and Get of package mediaitems call
\* the transport once and never again; they return the record of the
\* response with a nil error when the transport call, the decoding and the
\* closing of the body all succeed, and an error when the transport call or
\* the decoding fails.
C22_SingleItemOnce ==
    SingleItem(fReq) =>
        /\ fCalls <= 1
        /\ (fpc # "do") => fCalls = 1
        /\ (fpc = "returned") =>
              /\ fBody = "none" => fRet.err = "transport"
              /\ (fBody # "none" /\ ~fResp.valid) => fRet.err = "decode"
              /\ (fBody # "none" /\ fResp.valid) =>
                    /\ fBody = "closed"
                    /\ fRet.page = fResp.page
                    /\ fRet.err \in {"nil", "close"}
              /\ fRet.err = "nil" => fRet.page \in Records

C22_Witness ==
    /\ SingleItem(fReq)
    /\ fpc = "returned"
    /\ fCalls = 1
    /\ fRet.err = "nil"
    /\ fRet.page \in Records

\* C23: in every reachable state, whether the run goes on, has ended, or was
\* cut short by a failed fetch or by cancellation, what the consumer has
\* received is the beginning of the items of the pages fetched so far, taken
\* in the order of the fetches.
C23_ReceivedIsPrefix ==
    IsPrefix(received, ConcatItems(fetched))

C23_Witness ==
    /\ outcome = "Cancelled"
    /\ Len(fetched) >= 2
    /\ Len(received) > Len(fetched[1].items)
    /\ Len(received) < Len(ConcatItems(fetched))

\* While the goroutine is in errCh <- err, albumCh is open and the goroutine
\* has not returned.
C24_BlockedInSend ==
    (pc = "senderr") => (closeCount = 0 /\ outcome = "none")

\* C24: the send of a fetch error is a plain blocking send: from the failed
\* fetch on, the goroutine stays in the send with albumCh open through every
\* step that is not the consumer receiving the error, a cancellation of ctx
\* included, and it stays there for good when the consumer never receives
\* from errCh.
C24_ErrorSendBlocks ==
    /\ []C24_BlockedInSend
    /\ [][(pc = "senderr" /\ errs' = errs) =>
             (pc' = "senderr" /\ closeCount' = 0)]_vars
    /\ [][(pc = "senderr" /\ errs' # errs) =>
             (errs' = Append(errs, "err") /\ pc' = "done")]_vars
    /\ [][(pc = "senderr" /\ consumerGone) =>
             (pc' = "senderr" /\ consumerGone')]_vars

C24_Witness ==
    /\ pc = "senderr"
    /\ cancelled
    /\ atCancel.pc = "senderr"
    /\ consumerGone
    /\ closeCount = 0
    /\ received # <<>>

\* A run that ended in Done or Cancelled has delivered no error, and albumCh
\* is closed.
C25_QuietEnd ==
    (outcome \in {"Done", "Cancelled"}) => (errs = <<>> /\ closeCount = 1)

\* C25: errCh is never closed: once a run has ended in Done or Cancelled
\* nothing is ever received from errCh again, neither an error nor the zero
\* value of a closed channel, so a receive from it blocks for good and the
\* close of albumCh is the only sign of the end.
C25_ErrChNeverCloses ==
    /\ []C25_QuietEnd
    /\ [][(outcome \in {"Done", "Cancelled"}) =>
             (errs' = errs /\ outcome' = outcome /\ closeCount' = closeCount)]_vars

C25_Witness ==
    /\ outcome = "Done"
    /\ ~consumerGone
    /\ ~cancelled
    /\ errs = <<>>
    /\ closeCount = 1
    /\ Len(fetched) = MaxFetches

\* As long as no code was received after the authorization URL was
\* presented, NewClient is in code := <-codeCh (or the process has ended with
\* the panic of the listener goroutine), it has returned nothing and
\* server.Shutdown was not called.
C26_WaitingForCode ==
    (oShown /\ oGot = <<>>) =>
        /\ opc \in {"wait", "crashed"}
        /\ oServer \in {"running", "failed"}
        /\ oShut = "none"
        /\ oRet = NoClient

\* C26: the wait of NewClient for the code does not look at ctx: while no
\* redirect callback has delivered a code NewClient does not return and the
\* listener is not shut down, and a cancellation of ctx changes neither.
C26_WaitIgnoresContext ==
    /\ []C26_WaitingForCode
    /\ [][(opc = "wait" /\ oGot' = oGot) =>
             (opc' \in {"wait", "crashed"} /\ oShut' = "none"
              /\ oRet' = NoClient)]_vars
    /\ [][(opc = "wait" /\ ~oCancelled /\ oCancelled') =>
             (opc' = "wait" /\ oServer' = oServer /\ oRet' = oRet)]_vars

C26_Witness ==
    /\ opc = "wait"
    /\ oCancelled
    /\ oGot = <<>>
    /\ oCallbacks = <<>>
    /\ oServer = "running"

====
